---- MODULE Spec2Model ----
(***************************************************************************)
(* AI Toy Companion: the App component's view state, its event handlers    *)
(* and the continuations of its asynchronous operations (description       *)
(* fetch, command request, voice recognition, error-notice timers).        *)
(* Time is the wall clock Date.now() in milliseconds.                      *)
(***************************************************************************)
EXTENDS Integers, Sequences, FiniteSets, TLC

(* ---------- Configuration (program constants) ---------- *)
SAFE_RETRY_COUNT == 2
RETRY_BASE_DELAY_MS == 800
DEBOUNCE_MS == 600
ERROR_CLEAR_MS == 6000

(* ---------- Strings as sequences of characters ---------- *)
LowerChar(c) ==
  CASE c = "Q" -> "q" [] c = "U" -> "u" [] c = "O" -> "o" [] c = "T" -> "t"
    [] c = "A" -> "a" [] c = "L" -> "l" [] c = "I" -> "i" [] c = "M" -> "m"
    [] c = "E" -> "e" [] c = "X" -> "x" [] c = "C" -> "c" [] c = "D" -> "d"
    [] c = "R" -> "r" [] c = "N" -> "n" [] c = "G" -> "g" [] c = "B" -> "b"
    [] c = "S" -> "s" [] c = "F" -> "f"
    [] OTHER -> c

toLowerCase(s) == [i \in 1..Len(s) |-> LowerChar(s[i])]

(* String.prototype.includes: some position where sub starts. *)
RECURSIVE includesFrom(_, _, _)
includesFrom(s, sub, i) ==
  IF i + Len(sub) - 1 > Len(s) THEN FALSE
  ELSE IF SubSeq(s, i, i + Len(sub) - 1) = sub THEN TRUE
  ELSE includesFrom(s, sub, i + 1)

includes(s, sub) == includesFrom(s, sub, 1)

(* String.prototype.startsWith and endsWith *)
startsWith(s, prefix) == Len(prefix) <= Len(s) /\ SubSeq(s, 1, Len(prefix)) = prefix

endsWith(s, suffix) ==
  Len(suffix) <= Len(s) /\ SubSeq(s, Len(s) - Len(suffix) + 1, Len(s)) = suffix

IsSpace(c) == c = " "

(* String.prototype.trim *)
RECURSIVE trimStart(_)
trimStart(s) == IF s # <<>> /\ IsSpace(Head(s)) THEN trimStart(Tail(s)) ELSE s

RECURSIVE trimEnd(_)
trimEnd(s) ==
  IF s # <<>> /\ IsSpace(s[Len(s)]) THEN trimEnd(SubSeq(s, 1, Len(s) - 1)) ELSE s

trim(s) == trimEnd(trimStart(s))

(* ---------- Error values thrown by the SDK, the file reader, the runtime ---------- *)
(* kind "null": null or undefined; kind "string": a thrown string (text);    *)
(* kind "object": an Error-like object with a name and a message.            *)
NullErr == [kind |-> "null", name |-> <<>>, message |-> <<>>, text |-> <<>>]
StringErr(t) == [kind |-> "string", name |-> <<>>, message |-> <<>>, text |-> t]
ObjectErr(n, m) == [kind |-> "object", name |-> n, message |-> m, text |-> <<>>]

(* Error.prototype.toString: the name, or "name: message". *)
ErrorToString(err) ==
  IF err.message = <<>> THEN err.name
  ELSE IF err.name = <<>> THEN err.message
  ELSE err.name \o <<":", " ">> \o err.message

(* JavaScript truthiness of an error value: null, undefined and "" are falsy. *)
Falsy(err) == err.kind = "null" \/ (err.kind = "string" /\ err.text = <<>>)

(* String(err.message || err) *)
MessageOrString(err) ==
  IF err.kind = "object" /\ err.message # <<>> THEN err.message
  ELSE IF err.kind = "object" THEN ErrorToString(err)
  ELSE IF err.kind = "string" THEN err.text
  ELSE <<"n", "u", "l", "l">>

KW_quota == <<"q", "u", "o", "t", "a">>
KW_limit == <<"l", "i", "m", "i", "t">>
KW_exceeded == <<"e", "x", "c", "e", "e", "d", "e", "d">>
KW_rate_limit == <<"r", "a", "t", "e", " ", "l", "i", "m", "i", "t">>
KW_429 == <<"4", "2", "9">>

(* A mutation of isQuotaError: the message is not lower-cased. *)
isQuotaError_NoLowerCase(err) ==
  IF Falsy(err) THEN FALSE
  ELSE LET msg == MessageOrString(err) IN
       includes(msg, KW_quota) \/ includes(msg, KW_limit) \/ includes(msg, KW_exceeded)
         \/ includes(msg, KW_rate_limit) \/ includes(msg, KW_429)

isQuotaError(err) ==
  IF Falsy(err) THEN FALSE
  ELSE LET msg == toLowerCase(MessageOrString(err)) IN
       includes(msg, KW_quota) \/ includes(msg, KW_limit) \/ includes(msg, KW_exceeded)
         \/ includes(msg, KW_rate_limit) \/ includes(msg, KW_429)

(* ---------- Bounds of the model ---------- *)
MaxUploads == 2
MaxCommands == 2
MaxMicClicks == 2
(* How many inputs the environment makes: user gestures, spoken commands,   *)
(* faults of a collaborator and lapses of time.                              *)
MaxInputs == 4
(* How many fragments make up the text of a classified error. *)
MaxFragments == 3
(* The shortest step of the clock: a point inside one debounce window. *)
TickMs == 200

Uploads == 1..MaxUploads
Commands == 1..MaxCommands
Mics == 1..MaxMicClicks

(* Date.now() when the page is loaded: any instant later than one debounce  *)
(* window after the epoch (lastSendAt starts at 0).                          *)
StartTime == DEBOUNCE_MS

(* ---------- Values exchanged with the collaborators ---------- *)
F_Quota == <<"Q", "u", "o", "t", "a">>
F_exceeded == <<"e", "x", "c", "e", "e", "d", "e", "d">>
QuotaErr == ObjectErr(<<"E", "r", "r">>, F_Quota \o <<" ">> \o F_exceeded)
NetErr == ObjectErr(<<"E", "r", "r">>, <<"N", "e", "t">>)
AbortErr == ObjectErr(<<"A", "b", "o", "r", "t">>, <<"a", "b", "o", "r", "t", "e", "d">>)
(* What a remote call may reject with. *)
ErrorValues == {QuotaErr, NetErr}

(* response.text of a description call *)
DescTexts == {"", "A fluffy bear"}

(* A command response: what its text accessor returns (response.text) and   *)
(* the parts of its first candidate, in part order.                          *)
ReplyTexts == {<<>>, <<" ">>, <<" ", "H", "i", " ">>}
(* A part of the candidate's content: part.text, or part.inlineData.data.  *)
TextPart(t) == [text |-> t, data |-> ""]
ImagePart(d) == [text |-> "", data |-> d]
TwoImages == <<TextPart("Whee"), ImagePart("imgB"), TextPart("!"), ImagePart("imgA")>>
PartLists == {<<>>, TwoImages}
Responses == [text : ReplyTexts, parts : PartLists]
(* No response; and the response of a description call, its text in one piece. *)
NoResponse == [text |-> <<>>, parts |-> <<>>]
DescResponse(text) == [text |-> <<text>>, parts |-> <<>>]

(* The files the user picks: name and MIME type (file.name, file.type). *)
PngFile == [name |-> <<"t", ".", "p", "n", "g">>, type |-> <<"i", "m", "a", "g", "e", "/", "p", "n", "g">>]
GlbFile == [name |-> <<"T", ".", "G", "l", "b">>, type |-> <<>>]
TxtFile == [name |-> <<"g", "l", "b", ".", "t", "x", "t">>, type |-> <<"t", "e", "x", "t", "/", "p", "l", "a", "i", "n">>]
Files == {PngFile, GlbFile, TxtFile}
NoFile == [name |-> <<>>, type |-> <<>>]
(* A change event: the input it came from and the file chosen. *)
NoPick == [input |-> "none", file |-> NoFile]
Pick(input, file) == [input |-> input, file |-> file]

(* The voices of the speech service: name and language tag (v.name, v.lang). *)
GoogleVoice == [name |-> <<"G", "O", "O", "G", "L", "E", " ", "U", "S", " ", "E", "n", "g", "l", "i", "s", "h">>,
                lang |-> <<"e", "n", "-", "U", "S">>]
FemaleVoice == [name |-> <<"M", "s", " ", "F", "e", "m", "a", "l", "e">>, lang |-> <<"e", "n", "-", "G", "B">>]
EnglishVoice == [name |-> <<"A", "l", "e", "x">>, lang |-> <<"e", "n", "-", "U", "S">>]
FrenchFemaleVoice == [name |-> <<"F", "e", "m", "a", "l", "e">>, lang |-> <<"f", "r", "-", "F", "R">>]
FrenchVoice == [name |-> <<"L", "u", "c">>, lang |-> <<"f", "r", "-", "F", "R">>]
Voices == {GoogleVoice, FemaleVoice, EnglishVoice, FrenchFemaleVoice, FrenchVoice}
(* u.voice of an utterance whose voice was not set: the service's default. *)
NoVoice == [name |-> <<>>, lang |-> <<>>]

(* The runtime: whether window.speechSynthesis exists, whether an            *)
(* AudioContext can be constructed, whether SpeechRecognition exists, and    *)
(* what speechSynthesis.getVoices() returns.                                 *)
FullPlatform == [speech |-> TRUE, audio |-> TRUE, recognition |-> TRUE,
                 voices |-> <<FrenchVoice, EnglishVoice>>]
BarePlatform == [speech |-> FALSE, audio |-> FALSE, recognition |-> FALSE, voices |-> <<>>]
Platforms == {FullPlatform, BarePlatform}

(* What the user types or says. *)
CommandTexts == {<<>>, <<" ">>, <<"d">>}
PresetCommands == {<<"d">>}

(* ---------- User-facing notices ---------- *)
MSG_NOT_IMAGE == "Please upload an image file."
MSG_DAILY_LIMIT == "Looks like the daily request limit for the AI model has been reached. Please try again tomorrow."
MSG_DESCRIBE_FAILED == "Could not describe the toy. Please try again."
MSG_READ_FAILED == "Failed to read the image or call the API."
MSG_PARSE == "I couldn't produce a reply or image. Try a simpler command like 'dance' or 'say hi'."
MSG_COMMAND_FAILED == "Something went wrong while generating the reply. Please try again."
MSG_VOICE_ERROR == "Voice recognition error"
MSG_NOT_MODEL == "Please upload a .glb model file."
MSG_VOICE_UNSUPPORTED == "Voice recognition is not supported in your browser."
PLACEHOLDER_DESCRIPTION == "A friendly toy! (Could not get a detailed description.)"

(* ---------- State ---------- *)
VARIABLES
  toyImage,              \* 0 (null) or k: the object URL of upload k
  toyImagePart,          \* 0 (null) or k: the encoded payload of upload k
  toyDescription,
  userCommand,
  toyReply,
  actionImage,           \* <<>> (null) or <<"data:image/png;base64,", data>>
  isLoadingDescription,
  isLoadingResponse,
  isListening,
  error,
  lastSendAt,
  abortControllerRef,    \* <<>> (null) or <<"d", k>> / <<"c", j>>: the controller of that operation's latest attempt
  toyImageObjectUrlRef,  \* 0 (null) or k
  recognitionRef,        \* 0 (null) or m
  now,                   \* Date.now()
  errorTimers,           \* deadlines of the pending setTimeout(() => setError('')) callbacks, in creation order
  descOps,               \* the invocations of handleFileChange past validation
  cmdOps,                \* the accepted invocations of sendCommand
  recogs,                \* the recognition instances created by handleMicClick
  inputs,                \* how many inputs the environment has made
  submissions,           \* how many times sendCommand has been invoked
  toyModel,              \* NoFile (null) or the model file chosen
  lastFile,              \* NoPick, or the latest change event of a file input
  fileChanges,           \* how many change events the file inputs have delivered
  revokedUrls,           \* the object URLs passed to URL.revokeObjectURL
  micClicks,             \* how many times handleMicClick has been invoked
  platform,              \* the runtime the page was loaded in
  audioContextRef,       \* 0 (null) or 1: the AudioContext
  voices,                \* the voices loaded from the speech service
  speechQueue,           \* the utterances handed to speechSynthesis.speak since its last cancel
  clsErr,                \* classifier check: the error value handed to isQuotaError
  clsResult              \* classifier check: <<>>, or <<b>> once isQuotaError has returned b

uiVars == <<toyImage, toyImagePart, toyDescription, userCommand, toyReply, actionImage,
            isLoadingDescription, isLoadingResponse, isListening, error, lastSendAt>>
refVars == <<abortControllerRef, toyImageObjectUrlRef, recognitionRef>>
timeVars == <<now>>
clsVars == <<clsErr, clsResult>>
fileVars == <<toyModel, lastFile, fileChanges, revokedUrls>>
notifyVars == <<platform, audioContextRef, voices, speechQueue>>
micVars == <<micClicks>>
vars == <<uiVars, refVars, timeVars, errorTimers, descOps, cmdOps, recogs, inputs,
          submissions, clsVars, notifyVars, fileVars, micVars>>

(* One invocation of handleFileChange or sendCommand.  pc: where its         *)
(* continuation stands; attempt, lastErr: the loop's locals; part: the       *)
(* toyImagePart its closure holds; wakeAt: when its backoff sleep ends;      *)
(* aborted: whether the signal of its awaited call was aborted.  History    *)
(* of a running operation: calls (remote calls issued so far) and            *)
(* resetWhile: "no", or what it was awaiting when startOver last ran, as     *)
(* long as it still awaits that ("encoding", "calling", "sleeping"), then    *)
(* "earlier"; response: what its last call resolved with.                    *)
IdleOp == [pc |-> "idle", attempt |-> 0, lastErr |-> NullErr, part |-> 0, wakeAt |-> 0,
           aborted |-> FALSE, calls |-> 0, resetWhile |-> "no", response |-> NoResponse]
IdleRecog == [status |-> "unused", part |-> 0, lastSendAt |-> 0]

AppInit ==
  /\ toyImage = 0
  /\ toyImagePart = 0
  /\ toyDescription = ""
  /\ userCommand = <<>>
  /\ toyReply = <<>>
  /\ actionImage = <<>>
  /\ isLoadingDescription = FALSE
  /\ isLoadingResponse = FALSE
  /\ isListening = FALSE
  /\ error = ""
  /\ lastSendAt = 0
  /\ abortControllerRef = <<>>
  /\ toyImageObjectUrlRef = 0
  /\ recognitionRef = 0
  /\ now = StartTime
  /\ errorTimers = <<>>
  /\ descOps = [k \in Uploads |-> IdleOp]
  /\ cmdOps = [j \in Commands |-> IdleOp]
  /\ recogs = [m \in Mics |-> IdleRecog]
  /\ inputs = 0
  /\ submissions = 0
  /\ toyModel = NoFile
  /\ lastFile = NoPick
  /\ fileChanges = 0
  /\ revokedUrls = {}
  /\ audioContextRef = 0
  /\ voices = platform.voices
  /\ speechQueue = <<>>
  /\ micClicks = 0

Init ==
  /\ platform = FullPlatform
  /\ AppInit
  /\ clsErr = NullErr
  /\ clsResult = <<>>

(* ---------- Audio cues and speech ---------- *)
(* initializeAudio: keep the context there is, else construct one; a        *)
(* construction that throws is caught and leaves the ref null.               *)
initializeAudio(ref) == IF ref # 0 THEN ref ELSE IF platform.audio THEN 1 ELSE 0

(* /google us english/i.test(v.name) *)
IsPreferredVoice(v) ==
  includes(toLowerCase(v.name),
           <<"g", "o", "o", "g", "l", "e", " ", "u", "s", " ", "e", "n", "g", "l", "i", "s", "h">>)

(* v.lang.startsWith('en') *)
IsEnglishVoice(v) == startsWith(v.lang, <<"e", "n">>)

(* v.lang.startsWith('en') && v.name.toLowerCase().includes('female') *)
IsEnglishFemaleVoice(v) ==
  IsEnglishVoice(v) /\ includes(toLowerCase(v.name), <<"f", "e", "m", "a", "l", "e">>)

(* Array.prototype.find: the first element that passes the test, or NoVoice. *)
find(vs, Test(_)) ==
  IF \E i \in DOMAIN vs : Test(vs[i])
  THEN vs[CHOOSE i \in DOMAIN vs : Test(vs[i]) /\ \A j \in 1..(i - 1) : ~Test(vs[j])]
  ELSE NoVoice

(* A mutation of ChooseVoice: the first English voice, whatever its name. *)
ChooseVoice_FirstEnglish(vs) == find(vs, IsEnglishVoice)

(* The voice speakText gives the utterance: find(...) || find(...) || find(...) *)
ChooseVoice(vs) ==
  IF find(vs, IsPreferredVoice) # NoVoice THEN find(vs, IsPreferredVoice)
  ELSE IF find(vs, IsEnglishFemaleVoice) # NoVoice THEN find(vs, IsEnglishFemaleVoice)
  ELSE find(vs, IsEnglishVoice)

Utterance(text) == [text |-> text, voice |-> ChooseVoice(voices)]

(* A mutation of speakText: the utterance is queued behind what is playing. *)
speakText_NoCancel(queue, text) ==
  IF ~platform.speech \/ text = <<>> THEN queue ELSE Append(queue, Utterance(text))

(* speakText(text): cancel what the service holds, then speak the utterance. *)
speakText(queue, text) ==
  IF ~platform.speech \/ text = <<>> THEN queue ELSE <<Utterance(text)>>

(* A mutation of handleError: without an audio context the notice is lost. *)
handleError_NeedsAudio(message, audioCtx) == IF audioCtx = 0 THEN "" ELSE message

(* handleError(message), its initializeAudio() leaving audioCtx: the         *)
(* error cue is played if there is a context (playSound returns at once      *)
(* without one), then setError(message); the result is the notice set.       *)
handleError(message, audioCtx) == message

(* if ('speechSynthesis' in window) window.speechSynthesis.cancel() *)
cancelSpeech(queue) == IF platform.speech THEN <<>> ELSE queue

(* The effect on toyReply: it runs when the rendered reply has changed. *)
SpeechAfterReply(queue, reply, reply2) ==
  IF reply2 # reply /\ reply2 # <<>> THEN speakText(queue, reply2) ELSE queue

(* One more input of the environment. *)
Input ==
  /\ inputs < MaxInputs
  /\ inputs' = inputs + 1

(* An operation still running: awaiting the encoder, a remote call or a backoff sleep. *)
Running(op) == op.pc \in {"encoding", "calling", "sleeping"}

(* setTimeout(() => setError(''), 6000) of handleError *)
TimersAfterError == Append(errorTimers, now + ERROR_CLEAR_MS)

(* RETRY_BASE_DELAY_MS * Math.pow(2, attempt) *)
RECURSIVE Pow2(_)
Pow2(n) == IF n = 0 THEN 1 ELSE 2 * Pow2(n - 1)

(* A mutation of Backoff: the exponent is counted from 0. *)
Backoff_FromZero(attempt) == RETRY_BASE_DELAY_MS * Pow2(attempt - 1)

Backoff(attempt) == RETRY_BASE_DELAY_MS * Pow2(attempt)

(* A mutation of CatchDecision: a quota error is retried like any other. *)
CatchDecision_RetriesQuota(err, attempt) ==
  IF attempt + 1 > SAFE_RETRY_COUNT THEN "exhausted" ELSE "retry"

(* A mutation of CatchDecision: the attempts are never counted out. *)
CatchDecision_NeverGivesUp(err, attempt) ==
  IF isQuotaError(err) THEN "fatal" ELSE "retry"

(* A mutation of CatchDecision: the loop gives up one attempt early. *)
CatchDecision_OneAttemptShort(err, attempt) ==
  IF isQuotaError(err) THEN "fatal"
  ELSE IF attempt + 1 >= SAFE_RETRY_COUNT THEN "exhausted"
  ELSE "retry"

(* The catch block of the retry loops, after attempt += 1 would apply:       *)
(* "fatal" (quota: notify, break), "exhausted" (notify, break) or "retry".   *)
CatchDecision(err, attempt) ==
  IF isQuotaError(err) THEN "fatal"
  ELSE IF attempt + 1 > SAFE_RETRY_COUNT THEN "exhausted"
  ELSE "retry"

(* The record of an operation whose continuation has returned: only the     *)
(* last error its loop caught and the response it received are kept.         *)
Finished(op) ==
  [IdleOp EXCEPT !.pc = "done", !.lastErr = op.lastErr, !.response = op.response]

(* resetWhile of an operation whose await has returned. *)
AfterAwait(resetWhile) == IF resetWhile = "no" THEN "no" ELSE "earlier"

(* ---------- startOver ---------- *)
(* abortControllerRef.current.abort() reaches the call whose controller the  *)
(* ref holds; every operation still running now belongs to a reset session. *)
OpsAfterReset(ops, kind) ==
  [i \in DOMAIN ops |->
     IF Running(ops[i])
     THEN [ops[i] EXCEPT
             !.resetWhile = ops[i].pc,
             !.aborted = @ \/ (abortControllerRef = <<kind, i>> /\ ops[i].pc = "calling")]
     ELSE ops[i]]

(* if (toyImageObjectUrlRef.current) URL.revokeObjectURL(...) *)
RevokedAfterRelease ==
  revokedUrls \cup (IF toyImageObjectUrlRef # 0 THEN {toyImageObjectUrlRef} ELSE {})

(* A mutation of IsImageFile: a file of unknown type passes. *)
IsImageFile_UnknownPasses(file) ==
  file.type = <<>> \/ startsWith(file.type, <<"i", "m", "a", "g", "e", "/">>)

(* file.type.startsWith('image/') *)
IsImageFile(file) == startsWith(file.type, <<"i", "m", "a", "g", "e", "/">>)

(* A mutation of IsModelFile: the name is not lower-cased. *)
IsModelFile_NoLowerCase(file) == endsWith(file.name, <<".", "g", "l", "b">>)

(* file.name.toLowerCase().endsWith('.glb') *)
IsModelFile(file) == endsWith(toLowerCase(file.name), <<".", "g", "l", "b">>)

(* A change event of a file input delivers file. *)
FileChange(input, file) ==
  /\ lastFile' = Pick(input, file)
  /\ fileChanges' = fileChanges + 1

StartOver ==
  /\ Input
  /\ toyImage # 0          \* the Start Over buttons are rendered with the toy
  /\ toyImage' = 0
  /\ toyImagePart' = 0
  /\ toyDescription' = ""
  /\ userCommand' = <<>>
  /\ toyReply' = <<>>
  /\ actionImage' = <<>>
  /\ error' = ""
  /\ toyImageObjectUrlRef' = 0
  /\ abortControllerRef' = <<>>
  /\ descOps' = OpsAfterReset(descOps, "d")
  /\ cmdOps' = OpsAfterReset(cmdOps, "c")
  /\ toyModel' = NoFile
  /\ revokedUrls' = RevokedAfterRelease
  /\ audioContextRef' = initializeAudio(audioContextRef)
  /\ speechQueue' = cancelSpeech(speechQueue)
  /\ UNCHANGED <<isLoadingDescription, isLoadingResponse, isListening, lastSendAt,
                 recognitionRef, timeVars, errorTimers, recogs, submissions, clsVars, platform, voices, lastFile, fileChanges, micVars>>

(* ---------- handleFileChange ---------- *)
(* A file that is not an image: handleError and return. *)
HandleFileChangeRejected(file) ==
  /\ toyImage = 0          \* the file input is rendered only without a toy
  /\ Input
  /\ error' = handleError(MSG_NOT_IMAGE, initializeAudio(audioContextRef))
  /\ errorTimers' = TimersAfterError
  /\ ~IsImageFile(file)
  /\ FileChange("image", file)
  /\ audioContextRef' = initializeAudio(audioContextRef)
  /\ UNCHANGED <<toyImage, toyImagePart, toyDescription, userCommand, toyReply, actionImage,
                 isLoadingDescription, isLoadingResponse, isListening, lastSendAt,
                 refVars, timeVars, descOps, cmdOps, recogs, submissions,
                 clsVars, platform, voices, speechQueue, toyModel, revokedUrls, micVars>>

(* An image: startOver(), show it, and await base64Encode(file). *)
HandleFileChange(k, file) ==
  /\ Input
  /\ toyImage = 0
  /\ descOps[k].pc = "idle"
  /\ \A i \in Uploads : i < k => descOps[i].pc # "idle"
  /\ toyImage' = k
  /\ toyImageObjectUrlRef' = k
  /\ isLoadingDescription' = TRUE
  /\ toyImagePart' = 0
  /\ toyDescription' = ""
  /\ userCommand' = <<>>
  /\ toyReply' = <<>>
  /\ actionImage' = <<>>
  /\ error' = ""
  /\ abortControllerRef' = <<>>
  /\ descOps' = [OpsAfterReset(descOps, "d") EXCEPT ![k] = [IdleOp EXCEPT !.pc = "encoding"]]
  /\ cmdOps' = OpsAfterReset(cmdOps, "c")
  /\ IsImageFile(file)
  /\ FileChange("image", file)
  /\ toyModel' = NoFile
  /\ revokedUrls' = RevokedAfterRelease
  /\ audioContextRef' = initializeAudio(audioContextRef)
  /\ speechQueue' = cancelSpeech(speechQueue)
  /\ UNCHANGED <<isLoadingResponse, isListening, lastSendAt, recognitionRef, timeVars,
                 errorTimers, recogs, submissions, clsVars, platform, voices, micVars>>

(* ---------- handleModelChange ---------- *)
HandleModelChange(file) ==
  /\ toyImage = 0          \* the model input is rendered only without a toy
  /\ Input
  /\ FileChange("model", file)
  /\ IF IsModelFile(file)
     THEN /\ toyModel' = file
          /\ UNCHANGED <<error, errorTimers>>
     ELSE /\ error' = handleError(MSG_NOT_MODEL, initializeAudio(audioContextRef))
          /\ errorTimers' = TimersAfterError
          /\ UNCHANGED toyModel
  /\ audioContextRef' = initializeAudio(audioContextRef)
  /\ UNCHANGED <<toyImage, toyImagePart, toyDescription, userCommand, toyReply, actionImage,
                 isLoadingDescription, isLoadingResponse, isListening, lastSendAt,
                 refVars, timeVars, descOps, cmdOps, recogs, submissions, clsVars, platform, voices, speechQueue,
                 revokedUrls, micVars>>

(* base64Encode resolves: setToyImagePart, then the first attempt of the loop. *)
EncodeResolves(k) ==
  /\ descOps[k].pc = "encoding"
  /\ toyImagePart' = k
  /\ abortControllerRef' = <<"d", k>>
  /\ descOps' = [descOps EXCEPT ![k] = [@ EXCEPT !.pc = "calling", !.calls = 1, !.part = k,
                                                     !.resetWhile = AfterAwait(@)]]
  /\ UNCHANGED <<toyImage, toyDescription, userCommand, toyReply, actionImage,
                 isLoadingDescription, isLoadingResponse, isListening, error, lastSendAt,
                 toyImageObjectUrlRef, recognitionRef, timeVars, errorTimers, cmdOps,
                 recogs, inputs, submissions, clsVars, notifyVars, fileVars, micVars>>

(* base64Encode rejects: the outer catch and finally. *)
EncodeRejects(k) ==
  /\ Input
  /\ descOps[k].pc = "encoding"
  /\ error' = handleError(MSG_READ_FAILED, initializeAudio(audioContextRef))
  /\ errorTimers' = TimersAfterError
  /\ toyImageObjectUrlRef' = 0
  /\ toyImage' = 0
  /\ isLoadingDescription' = FALSE
  /\ descOps' = [descOps EXCEPT ![k] = Finished(@)]
  /\ revokedUrls' = RevokedAfterRelease
  /\ audioContextRef' = initializeAudio(audioContextRef)
  /\ UNCHANGED <<toyImagePart, toyDescription, userCommand, toyReply, actionImage,
                 isLoadingResponse, isListening, lastSendAt, abortControllerRef,
                 recognitionRef, timeVars, cmdOps, recogs, submissions, clsVars, platform, voices, speechQueue, toyModel, lastFile, fileChanges, micVars>>

(* What an awaited remote call may reject with: an error of the service, or  *)
(* the abort error if the call observes its aborted signal.                  *)
Rejections(op) == ErrorValues \cup (IF op.aborted THEN {AbortErr} ELSE {})

(* The description call resolves: store the text, leave the loop, finally. *)
DescribeResolves(k, text) ==
  /\ descOps[k].pc = "calling"
  /\ toyDescription' = IF text # "" THEN text ELSE PLACEHOLDER_DESCRIPTION
  /\ abortControllerRef' = <<>>
  /\ isLoadingDescription' = FALSE
  /\ descOps' = [descOps EXCEPT ![k] = Finished([@ EXCEPT !.lastErr = NullErr, !.response = DescResponse(text)])]
  /\ UNCHANGED <<toyImage, toyImagePart, userCommand, toyReply, actionImage,
                 isLoadingResponse, isListening, error, lastSendAt, toyImageObjectUrlRef,
                 recognitionRef, timeVars, errorTimers, cmdOps, recogs, inputs,
                 submissions, clsVars, notifyVars, fileVars, micVars>>

(* The description call rejects: the catch block of the loop. *)
DescribeRejects(k, err) ==
  /\ descOps[k].pc = "calling"
  /\ err \in Rejections(descOps[k])
  /\ Input
  /\ LET op == [descOps[k] EXCEPT !.lastErr = err]
         decision == CatchDecision(err, op.attempt)
     IN
     IF decision = "retry"
     THEN /\ descOps' = [descOps EXCEPT ![k] =
                           [op EXCEPT !.pc = "sleeping", !.attempt = @ + 1, !.aborted = FALSE,
                                      !.wakeAt = now + Backoff(op.attempt + 1),
                                      !.resetWhile = AfterAwait(@)]]
          /\ UNCHANGED <<error, errorTimers, abortControllerRef, isLoadingDescription>>
     ELSE LET message == IF decision = "fatal" THEN MSG_DAILY_LIMIT ELSE MSG_DESCRIBE_FAILED
          IN
          /\ error' = handleError(message, initializeAudio(audioContextRef))
          /\ errorTimers' = TimersAfterError
          /\ abortControllerRef' = <<>>
          /\ isLoadingDescription' = FALSE
          /\ descOps' = [descOps EXCEPT ![k] =
                           Finished(op)]
  /\ audioContextRef' = IF CatchDecision(err, descOps[k].attempt) = "retry"
                        THEN audioContextRef ELSE initializeAudio(audioContextRef)
  /\ UNCHANGED <<toyImage, toyImagePart, toyDescription, userCommand, toyReply, actionImage,
                 isLoadingResponse, isListening, lastSendAt, toyImageObjectUrlRef,
                 recognitionRef, timeVars, cmdOps, recogs, submissions, clsVars, platform, voices, speechQueue, fileVars, micVars>>

(* The backoff sleep ends: finally clears the ref, the next attempt sets it. *)
DescribeWakes(k) ==
  /\ descOps[k].pc = "sleeping"
  /\ now >= descOps[k].wakeAt
  /\ abortControllerRef' = <<"d", k>>
  /\ descOps' = [descOps EXCEPT ![k] = [@ EXCEPT !.pc = "calling", !.calls = @ + 1, !.wakeAt = 0,
                              !.resetWhile = AfterAwait(@)]]
  /\ UNCHANGED <<uiVars, toyImageObjectUrlRef, recognitionRef, timeVars, errorTimers,
                 cmdOps, recogs, inputs, submissions, clsVars, notifyVars, fileVars, micVars>>

(* ---------- sendCommand ---------- *)
(* canSendNow, as the closure that holds lastSend evaluates it. *)
canSendNow(lastSend) == ~(now - lastSend < DEBOUNCE_MS)

(* A mutation of HasCommandAndImage: the command text is not trimmed. *)
HasCommandAndImage_NoTrim(commandText, part) == ~(commandText = <<>> \/ part = 0)

(* The guards of sendCommand on the command text and the captured image. *)
HasCommandAndImage(commandText, part) == ~(trim(commandText) = <<>> \/ part = 0)

(* What sendCommand may write. *)
sendVars == <<isLoadingResponse, toyReply, actionImage, error, lastSendAt,
              abortControllerRef, cmdOps>>

(* sendCommand(commandText) run by a closure that holds part as toyImagePart *)
(* and lastSend as lastSendAt, up to its first await.                        *)
SendCommand(commandText, part, lastSend) ==
  /\ Input
  /\ submissions' = submissions + 1
  /\ IF ~HasCommandAndImage(commandText, part) THEN UNCHANGED sendVars
     ELSE IF ~canSendNow(lastSend) THEN UNCHANGED sendVars
     ELSE \E j \in Commands :
            /\ cmdOps[j].pc = "idle"
            /\ \A i \in Commands : i < j => cmdOps[i].pc # "idle"
            /\ lastSendAt' = now
            /\ isLoadingResponse' = TRUE
            /\ toyReply' = <<>>
            /\ actionImage' = <<>>
            /\ error' = ""
            /\ abortControllerRef' = <<"c", j>>
            /\ cmdOps' = [cmdOps EXCEPT ![j] =
                            [IdleOp EXCEPT !.pc = "calling", !.calls = 1, !.part = part]]

(* onInput of the text field, then onSubmit of the form:                    *)
(* setUserCommand(text), and after the render sendCommand(userCommand).      *)
SubmitForm(text) ==
  /\ toyImage # 0          \* the command bar is rendered with the toy
  /\ userCommand' = text
  /\ SendCommand(text, toyImagePart, lastSendAt)
  /\ audioContextRef' = initializeAudio(audioContextRef)
  /\ UNCHANGED <<toyImage, toyImagePart, toyDescription, isLoadingDescription,
                 isListening, toyImageObjectUrlRef, recognitionRef, timeVars, errorTimers,
                 descOps, recogs, clsVars, platform, voices, speechQueue, fileVars, micVars>>

(* onClick of a preset button: setUserCommand(cmd); sendCommand(cmd) *)
PresetClick(cmd) ==
  /\ toyImage # 0
  /\ userCommand' = cmd
  /\ SendCommand(cmd, toyImagePart, lastSendAt)
  /\ audioContextRef' = initializeAudio(audioContextRef)
  /\ UNCHANGED <<toyImage, toyImagePart, toyDescription, isLoadingDescription,
                 isListening, toyImageObjectUrlRef, recognitionRef, timeVars, errorTimers,
                 descOps, recogs, clsVars, platform, voices, speechQueue, fileVars, micVars>>

(* A mutation of FirstImage: the last image part wins. *)
FirstImage_TakesLast(parts) ==
  LET withData == SelectSeq(parts, LAMBDA part : part.data # "")
  IN IF withData = <<>> THEN "" ELSE withData[Len(withData)].data

(* The first part, in part order, that carries inline image data. *)
RECURSIVE FirstImage(_)
FirstImage(parts) ==
  IF parts = <<>> THEN ""
  ELSE IF Head(parts).data # "" THEN Head(parts).data
  ELSE FirstImage(Tail(parts))

(* A mutation of FoundText: the text is not trimmed. *)
FoundText_NoTrim(response) == response.text

(* response.text?.trim() ?? '' *)
FoundText(response) == trim(response.text)

DataUrl(data) == <<"data:image/png;base64,", data>>

(* The command call resolves: parse, store, leave the loop, finally. *)
CommandResolves(j, response) ==
  /\ cmdOps[j].pc = "calling"
  /\ LET foundText == FoundText(response)
         foundImageData == FirstImage(response.parts)
         empty == foundText = <<>> /\ foundImageData = ""
         op == [cmdOps[j] EXCEPT !.lastErr = NullErr, !.response = response]
     IN
     /\ toyReply' = IF foundText # <<>> THEN foundText ELSE toyReply
     /\ actionImage' = IF foundImageData # "" THEN DataUrl(foundImageData) ELSE actionImage
     /\ error' = IF empty THEN handleError(MSG_PARSE, initializeAudio(audioContextRef)) ELSE error
     /\ errorTimers' = IF empty THEN TimersAfterError ELSE errorTimers
     /\ audioContextRef' = IF empty THEN initializeAudio(audioContextRef) ELSE audioContextRef
     /\ cmdOps' = [cmdOps EXCEPT ![j] = Finished(op)]
  /\ abortControllerRef' = <<>>
  /\ isLoadingResponse' = FALSE
  /\ speechQueue' = SpeechAfterReply(speechQueue, toyReply, toyReply')
  /\ UNCHANGED <<toyImage, toyImagePart, toyDescription, userCommand, isLoadingDescription,
                 isListening, lastSendAt, toyImageObjectUrlRef, recognitionRef, timeVars,
                 descOps, recogs, inputs, submissions, clsVars, platform, voices, fileVars, micVars>>

(* The command call rejects: the catch block of the loop. *)
CommandRejects(j, err) ==
  /\ cmdOps[j].pc = "calling"
  /\ err \in Rejections(cmdOps[j])
  /\ Input
  /\ LET op == [cmdOps[j] EXCEPT !.lastErr = err]
         decision == CatchDecision(err, op.attempt)
     IN
     IF decision = "retry"
     THEN /\ cmdOps' = [cmdOps EXCEPT ![j] =
                          [op EXCEPT !.pc = "sleeping", !.attempt = @ + 1, !.aborted = FALSE,
                                     !.wakeAt = now + Backoff(op.attempt + 1),
                                     !.resetWhile = AfterAwait(@)]]
          /\ UNCHANGED <<error, errorTimers, abortControllerRef, isLoadingResponse>>
     ELSE LET message == IF decision = "fatal" THEN MSG_DAILY_LIMIT ELSE MSG_COMMAND_FAILED
          IN
          /\ error' = handleError(message, initializeAudio(audioContextRef))
          /\ errorTimers' = TimersAfterError
          /\ abortControllerRef' = <<>>
          /\ isLoadingResponse' = FALSE
          /\ cmdOps' = [cmdOps EXCEPT ![j] =
                          Finished(op)]
  /\ audioContextRef' = IF CatchDecision(err, cmdOps[j].attempt) = "retry"
                        THEN audioContextRef ELSE initializeAudio(audioContextRef)
  /\ UNCHANGED <<toyImage, toyImagePart, toyDescription, userCommand, toyReply, actionImage,
                 isLoadingDescription, isListening, lastSendAt, toyImageObjectUrlRef,
                 recognitionRef, timeVars, descOps, recogs, submissions, clsVars, platform, voices, speechQueue, fileVars, micVars>>

(* The backoff sleep ends: finally clears the ref, the next attempt sets it. *)
CommandWakes(j) ==
  /\ cmdOps[j].pc = "sleeping"
  /\ now >= cmdOps[j].wakeAt
  /\ abortControllerRef' = <<"c", j>>
  /\ cmdOps' = [cmdOps EXCEPT ![j] = [@ EXCEPT !.pc = "calling", !.calls = @ + 1, !.wakeAt = 0,
                              !.resetWhile = AfterAwait(@)]]
  /\ UNCHANGED <<uiVars, toyImageObjectUrlRef, recognitionRef, timeVars, errorTimers,
                 descOps, recogs, inputs, submissions, clsVars, notifyVars, fileVars, micVars>>

(* ---------- handleMicClick and the recognition events ---------- *)
(* A mutation of RecognitionSupported: the capability is taken for granted. *)
RecognitionSupported_Always == TRUE

(* SpeechRecognition: window.SpeechRecognition || window.webkitSpeechRecognition *)
RecognitionSupported == platform.recognition

(* recognitionRef.current?.stop(): the instance the ref holds stops          *)
(* capturing; it may still deliver the result of the audio it has received,  *)
(* and its end event follows later.  No other instance is reached.           *)
stop(rs, ref) ==
  IF ref # 0 /\ rs[ref].status \in {"starting", "listening"}
  THEN [rs EXCEPT ![ref].status = "stopping"]
  ELSE rs

(* The microphone button is part of the command bar.  src/index.tsx renders  *)
(* it on every runtime; part_000 renders it only where SpeechRecognition     *)
(* exists, so there the first branch of handleMicClick is never entered.     *)
(* The handlers set on a recognition instance are closures of the render in  *)
(* which the microphone was clicked: the sendCommand they call holds that    *)
(* render's toyImagePart and lastSendAt.                                     *)
HandleMicClick ==
  /\ Input
  /\ toyImage # 0          \* the mic button is in the command bar
  /\ micClicks' = micClicks + 1
  /\ audioContextRef' = initializeAudio(audioContextRef)
  /\ IF ~RecognitionSupported
     THEN /\ error' = handleError(MSG_VOICE_UNSUPPORTED, initializeAudio(audioContextRef))
          /\ errorTimers' = TimersAfterError
          /\ UNCHANGED <<isListening, recogs, recognitionRef>>
     ELSE IF isListening
     THEN /\ recogs' = stop(recogs, recognitionRef)
          /\ isListening' = FALSE
          /\ UNCHANGED <<recognitionRef, error, errorTimers>>
     ELSE \E m \in Mics :
            /\ recogs[m].status = "unused"
            /\ \A i \in Mics : i < m => recogs[i].status # "unused"
            /\ recogs' = [recogs EXCEPT ![m] = [status |-> "starting", part |-> toyImagePart,
                                                lastSendAt |-> lastSendAt]]
            /\ recognitionRef' = m
            /\ UNCHANGED <<isListening, error, errorTimers>>
  /\ UNCHANGED <<toyImage, toyImagePart, toyDescription, userCommand, toyReply, actionImage,
                 isLoadingDescription, isLoadingResponse, lastSendAt,
                 abortControllerRef, toyImageObjectUrlRef, timeVars, descOps,
                 cmdOps, submissions, clsVars, platform, voices, speechQueue, fileVars>>

(* recog.onstart *)
RecogStart(m) ==
  /\ recogs[m].status = "starting"
  /\ recogs' = [recogs EXCEPT ![m].status = "listening"]
  /\ isListening' = TRUE
  /\ UNCHANGED <<toyImage, toyImagePart, toyDescription, userCommand, toyReply, actionImage,
                 isLoadingDescription, isLoadingResponse, error, lastSendAt, refVars,
                 timeVars, errorTimers, descOps, cmdOps, inputs, submissions, clsVars, notifyVars, fileVars, micVars>>

(* recog.onresult: setUserCommand(transcript); sendCommand(transcript) *)
RecogResult(m, transcript) ==
  /\ recogs[m].status \in {"listening", "stopping"}
  /\ recogs' = [recogs EXCEPT ![m].status = "resulted"]
  /\ userCommand' = transcript
  /\ SendCommand(transcript, recogs[m].part, recogs[m].lastSendAt)
  /\ audioContextRef' = IF HasCommandAndImage(transcript, recogs[m].part) /\ canSendNow(recogs[m].lastSendAt)
                        THEN initializeAudio(audioContextRef) ELSE audioContextRef
  /\ UNCHANGED <<toyImage, toyImagePart, toyDescription, isLoadingDescription,
                 isListening, toyImageObjectUrlRef, recognitionRef, timeVars, errorTimers,
                 descOps, clsVars, platform, voices, speechQueue, fileVars, micVars>>

(* recog.onerror: setIsListening(false); handleError(...) *)
RecogError(m) ==
  /\ Input
  /\ recogs[m].status \in {"starting", "listening"}
  /\ recogs' = [recogs EXCEPT ![m].status = "errored"]
  /\ isListening' = FALSE
  /\ error' = handleError(MSG_VOICE_ERROR, initializeAudio(audioContextRef))
  /\ errorTimers' = TimersAfterError
  /\ audioContextRef' = initializeAudio(audioContextRef)
  /\ UNCHANGED <<toyImage, toyImagePart, toyDescription, userCommand, toyReply, actionImage,
                 isLoadingDescription, isLoadingResponse, lastSendAt, refVars, timeVars,
                 descOps, cmdOps, submissions, clsVars, platform, voices, speechQueue, fileVars, micVars>>

(* recog.onend *)
RecogEnd(m) ==
  /\ recogs[m].status \in {"listening", "stopping", "resulted", "errored"}
  /\ recogs' = [recogs EXCEPT ![m].status = "ended"]
  /\ isListening' = FALSE
  /\ UNCHANGED <<toyImage, toyImagePart, toyDescription, userCommand, toyReply, actionImage,
                 isLoadingDescription, isLoadingResponse, error, lastSendAt, refVars,
                 timeVars, errorTimers, descOps, cmdOps, inputs, submissions, clsVars, notifyVars, fileVars, micVars>>

(* ---------- Timers and the clock ---------- *)
(* The callback of handleError's setTimeout: setError('') *)
ErrorTimerFires ==
  /\ errorTimers # <<>>
  /\ now >= Head(errorTimers)
  /\ errorTimers' = Tail(errorTimers)
  /\ error' = ""
  /\ UNCHANGED <<toyImage, toyImagePart, toyDescription, userCommand, toyReply, actionImage,
                 isLoadingDescription, isLoadingResponse, isListening, lastSendAt, refVars,
                 timeVars, descOps, cmdOps, recogs, inputs, submissions,
                 clsVars, notifyVars, fileVars, micVars>>

(* The instants at which a pending timer callback is due. *)
Deadlines ==
  {errorTimers[i] : i \in DOMAIN errorTimers}
    \cup {descOps[k].wakeAt : k \in {i \in Uploads : descOps[i].pc = "sleeping"}}
    \cup {cmdOps[j].wakeAt : j \in {i \in Commands : cmdOps[i].pc = "sleeping"}}

Due == \E d \in Deadlines : d <= now

(* Time passes while nothing is due: by a short step or by a debounce window, *)
(* never past a pending deadline.                                             *)
Tick(step) ==
  /\ ~Due
  /\ Input
  /\ \A d \in Deadlines : now + step <= d
  /\ now' = now + step
  /\ UNCHANGED <<uiVars, refVars, errorTimers, descOps, cmdOps, recogs,
                 submissions, clsVars, notifyVars, fileVars, micVars>>

(* Time passes until the next pending timer is due. *)
AdvanceToDeadline ==
  /\ ~Due
  /\ Deadlines # {}
  /\ now' = CHOOSE d \in Deadlines : \A e \in Deadlines : d <= e
  /\ UNCHANGED <<uiVars, refVars, errorTimers, descOps, cmdOps, recogs, inputs,
                 submissions, clsVars, notifyVars, fileVars, micVars>>

(* ---------- The application ---------- *)
Next ==
  \/ StartOver
  \/ \E file \in Files : HandleFileChangeRejected(file)
  \/ \E k \in Uploads, file \in Files : HandleFileChange(k, file)
  \/ \E file \in Files : HandleModelChange(file)
  \/ \E k \in Uploads : EncodeResolves(k)
  \/ \E k \in Uploads : EncodeRejects(k)
  \/ \E k \in Uploads, text \in DescTexts : DescribeResolves(k, text)
  \/ \E k \in Uploads, err \in ErrorValues \cup {AbortErr} : DescribeRejects(k, err)
  \/ \E k \in Uploads : DescribeWakes(k)
  \/ \E text \in CommandTexts : SubmitForm(text)
  \/ \E cmd \in PresetCommands : PresetClick(cmd)
  \/ \E j \in Commands, response \in Responses : CommandResolves(j, response)
  \/ \E j \in Commands, err \in ErrorValues \cup {AbortErr} : CommandRejects(j, err)
  \/ \E j \in Commands : CommandWakes(j)
  \/ HandleMicClick
  \/ \E m \in Mics : RecogStart(m)
  \/ \E m \in Mics, transcript \in CommandTexts : RecogResult(m, transcript)
  \/ \E m \in Mics : RecogError(m)
  \/ \E m \in Mics : RecogEnd(m)
  \/ ErrorTimerFires
  \/ \E step \in {TickMs, DEBOUNCE_MS} : Tick(step)
  \/ AdvanceToDeadline

Spec == Init /\ [][Next]_vars

(* ---------- The application from a ready session ---------- *)
(* The state after one image was uploaded, encoded and described, with the   *)
(* count of inputs started afresh.                                           *)
ReadySession ==
  /\ toyImage = 1
  /\ toyImagePart = 1
  /\ toyDescription = "A fluffy bear"
  /\ userCommand = <<>>
  /\ toyReply = <<>>
  /\ actionImage = <<>>
  /\ isLoadingDescription = FALSE
  /\ isLoadingResponse = FALSE
  /\ isListening = FALSE
  /\ error = ""
  /\ lastSendAt = 0
  /\ abortControllerRef = <<>>
  /\ toyImageObjectUrlRef = 1
  /\ recognitionRef = 0
  /\ now = StartTime
  /\ errorTimers = <<>>
  /\ descOps = [k \in Uploads |->
                  IF k = 1
                  THEN Finished([IdleOp EXCEPT !.response = DescResponse("A fluffy bear")])
                  ELSE IdleOp]
  /\ cmdOps = [j \in Commands |-> IdleOp]
  /\ recogs = [m \in Mics |-> IdleRecog]
  /\ submissions = 0
  /\ toyModel = NoFile
  /\ lastFile = Pick("image", PngFile)
  /\ fileChanges = 1
  /\ revokedUrls = {}
  /\ platform = FullPlatform
  /\ audioContextRef = 1
  /\ voices = platform.voices
  /\ speechQueue = <<>>
  /\ micClicks = 0

InitReady ==
  /\ ReadySession
  /\ inputs = 0
  /\ clsErr = NullErr
  /\ clsResult = <<>>

SpecReady == InitReady /\ [][Next]_vars

(* ---------- The application under fair scheduling ---------- *)
(* Every awaited promise settles: base64Encode's FileReader fires load or    *)
(* error, and each remote call returns or fails.                             *)
EncodeSettles(k) == EncodeResolves(k) \/ EncodeRejects(k)

DescribeSettles(k) ==
  \/ \E text \in DescTexts : DescribeResolves(k, text)
  \/ \E err \in ErrorValues \cup {AbortErr} : DescribeRejects(k, err)

CommandSettles(j) ==
  \/ \E response \in Responses : CommandResolves(j, response)
  \/ \E err \in ErrorValues \cup {AbortErr} : CommandRejects(j, err)

(* The event loop runs every continuation that is ready and every timer      *)
(* callback that is due, and the clock reaches every pending deadline.       *)
Fairness ==
  /\ \A k \in Uploads : WF_vars(EncodeSettles(k)) /\ WF_vars(DescribeSettles(k))
                          /\ WF_vars(DescribeWakes(k))
  /\ \A j \in Commands : WF_vars(CommandSettles(j)) /\ WF_vars(CommandWakes(j))
  /\ WF_vars(ErrorTimerFires)
  /\ WF_vars(AdvanceToDeadline)

SpecLive == InitReady /\ [][Next]_vars /\ Fairness

(* ---------- The error classifier on its own ---------- *)
(* Pieces of error text: keywords split in two, in mixed case, and filler. *)
Fragments ==
  { <<"Q", "u", "o">>, <<"t", "a">>, <<"L", "I", "M", "I", "T">>,
    <<"e", "x", "c", "e", "e", "d">>, <<"e", "d">>, <<"r", "a", "t", "e", " ">>,
    <<"4", "2">>, <<"9">>, <<"x">> }

RECURSIVE FragmentTexts(_)
FragmentTexts(n) ==
  IF n = 0 THEN {<<>>}
  ELSE LET shorter == FragmentTexts(n - 1)
       IN shorter \cup {t \o f : t \in shorter, f \in Fragments}

(* Error values: null, thrown strings, errors with a message, and errors     *)
(* without one whose name carries the text.                                  *)
ClassifiedErrors ==
  {NullErr}
    \cup {StringErr(t) : t \in FragmentTexts(MaxFragments)}
    \cup {ObjectErr(<<"E", "r", "r">>, t) : t \in FragmentTexts(MaxFragments)}
    \cup {ObjectErr(t, <<>>) : t \in FragmentTexts(MaxFragments)}

InitClassify ==
  /\ platform = FullPlatform
  /\ AppInit
  /\ clsErr \in ClassifiedErrors
  /\ clsResult = <<>>

(* isQuotaError(clsErr) is called and returns. *)
Classify ==
  /\ clsResult = <<>>
  /\ clsResult' = <<isQuotaError(clsErr)>>
  /\ UNCHANGED <<uiVars, refVars, timeVars, errorTimers, descOps, cmdOps, recogs, inputs,
                 submissions, clsErr, fileVars, micVars, notifyVars>>

SpecClassify == InitClassify /\ [][Classify]_vars

(* ---------- The application on any runtime ---------- *)
InitPlatform ==
  /\ platform \in Platforms
  /\ AppInit
  /\ clsErr = NullErr
  /\ clsResult = <<>>

SpecPlatform == InitPlatform /\ [][Next]_vars

(* ---------- The voice chooser on its own ---------- *)
(* How many voices the speech service lists. *)
MaxVoices == 3

VoiceLists == UNION {[1..n -> Voices] : n \in 0..MaxVoices}

InitVoices ==
  /\ platform \in {[FullPlatform EXCEPT !.voices = vs] : vs \in VoiceLists}
  /\ AppInit
  /\ clsErr = NullErr
  /\ clsResult = <<>>

(* speakText(text) is called on a silent service. *)
SpeakText(text) ==
  /\ speechQueue = <<>>
  /\ speechQueue' = speakText(speechQueue, text)
  /\ UNCHANGED <<uiVars, refVars, timeVars, errorTimers, descOps, cmdOps, recogs, inputs,
                 submissions, clsVars, fileVars, micVars, platform, audioContextRef, voices>>

SpecVoices == InitVoices /\ [][SpeakText(<<"H", "i">>)]_vars

(* ====================== Properties ====================== *)
DescOps == {descOps[k] : k \in Uploads}
CmdOps == {cmdOps[j] : j \in Commands}

(* The remote call op awaits fails in this step, leaving op2. *)
CallFails(op, op2) == op.pc = "calling" /\ op2.pc # "calling" /\ op2.lastErr # NullErr

(* The operation's loop is running: a call outstanding or a backoff sleep. *)
InLoop(op) == op.pc \in {"calling", "sleeping"}

(* sendCommand is invoked in this step. *)
Submits == submissions' # submissions

(* What a rejected sendCommand must leave alone; cmdOps' = cmdOps: no call issued. *)
sendFrame == <<isLoadingResponse, toyReply, actionImage, error, lastSendAt, cmdOps>>

(* C1: when a request that was in flight at a reset completes, with a result *)
(* or an error, the step changes none of toyDescription, toyReply,           *)
(* actionImage, toyImagePart, toyImage, error.                               *)
CompletesAfterReset(op, op2) ==
  op.pc = "calling" /\ op.resetWhile = "calling" /\ op2.pc # "calling"

C1_LateCompletionChangesNothing ==
  [][((\E k \in Uploads : CompletesAfterReset(descOps[k], descOps'[k]))
        \/ (\E j \in Commands : CompletesAfterReset(cmdOps[j], cmdOps'[j])))
     => UNCHANGED <<toyDescription, toyReply, actionImage, toyImagePart, toyImage, error>>]_vars

(* C2: a call that fails with an error isQuotaError classifies as Fatal ends *)
(* its operation in that step (no backoff sleep, no further call: a finished *)
(* operation stays finished) and sets the daily-limit notice.                *)
FatalEndsLoop(op, op2) ==
  /\ CallFails(op, op2) /\ isQuotaError(op2.lastErr)
       => op2.pc = "done" /\ error' = MSG_DAILY_LIMIT
            /\ errorTimers' = Append(errorTimers, now + ERROR_CLEAR_MS)
  /\ op.pc = "done" => op2 = op

C2_FatalEndsLoop ==
  [][/\ \A k \in Uploads : FatalEndsLoop(descOps[k], descOps'[k])
     /\ \A j \in Commands : FatalEndsLoop(cmdOps[j], cmdOps'[j])]_vars

C2_Witness ==
  \E op \in DescOps \cup CmdOps :
    op.pc = "done" /\ isQuotaError(op.lastErr) /\ error = MSG_DAILY_LIMIT

(* C3: while the calls of an operation fail with Transient errors, the first *)
(* SAFE_RETRY_COUNT failures lead to a sleep without a notice and then to    *)
(* one more call; the failure of call SAFE_RETRY_COUNT + 1 = 3 ends the      *)
(* operation and sets the generic notice, once; no call follows.             *)
TransientRetries(op, op2, notice) ==
  /\ op.calls <= SAFE_RETRY_COUNT + 1
  /\ CallFails(op, op2) /\ ~isQuotaError(op2.lastErr)
       => IF op.calls = SAFE_RETRY_COUNT + 1
          THEN /\ op2.pc = "done"
               /\ error' = notice
               /\ errorTimers' = Append(errorTimers, now + ERROR_CLEAR_MS)
          ELSE /\ op2.pc = "sleeping"
               /\ op2.calls = op.calls
               /\ UNCHANGED <<error, errorTimers>>
  /\ op.pc = "sleeping" /\ op2.pc # "sleeping"
       => op2.pc = "calling" /\ op2.calls = op.calls + 1
  /\ op.pc = "done" => op2 = op

C3_TransientExhausts ==
  [][/\ \A k \in Uploads : TransientRetries(descOps[k], descOps'[k], MSG_DESCRIBE_FAILED)
     /\ \A j \in Commands : TransientRetries(cmdOps[j], cmdOps'[j], MSG_COMMAND_FAILED)]_vars

C3_Witness ==
  \/ \E op \in DescOps : op.pc = "done" /\ op.lastErr = NetErr /\ error = MSG_DESCRIBE_FAILED
  \/ \E op \in CmdOps : op.pc = "done" /\ op.lastErr = NetErr /\ error = MSG_COMMAND_FAILED

(* C4: isQuotaError returns true exactly when the lower-cased message of    *)
(* the error, or its string form when it has no message, contains one of     *)
(* "quota", "limit", "exceeded", "rate limit", "429"; a null or empty error  *)
(* has no such text and is Transient.                                        *)
FatalKeywords == {KW_quota, KW_limit, KW_exceeded, KW_rate_limit, KW_429}

ErrorText(err) ==
  IF err.kind = "object"
  THEN IF err.message # <<>> THEN err.message ELSE ErrorToString(err)
  ELSE err.text

OccursIn(kw, s) ==
  \E i \in 1..Len(s) :
    /\ i + Len(kw) - 1 <= Len(s)
    /\ \A n \in 1..Len(kw) : s[i + n - 1] = kw[n]

C4_FatalIffKeyword ==
  clsResult # <<>>
    => (clsResult[1] <=> \E kw \in FatalKeywords : OccursIn(kw, toLowerCase(ErrorText(clsErr))))

C4_Witness ==
  /\ clsResult = <<TRUE>>
  /\ clsErr = ObjectErr(<<"E", "r", "r">>, <<"Q", "u", "o", "t", "a">>)

(* C5: a command submitted, with text and an image captured, less than       *)
(* DEBOUNCE_MS after the last accepted one issues no call and leaves the     *)
(* reply, the action image, the notice and the loading flag alone.           *)
C5_SecondWithinWindowRejected ==
  [][Submits /\ now - lastSendAt < DEBOUNCE_MS /\ trim(userCommand') # <<>> /\ toyImagePart # 0
     => UNCHANGED <<cmdOps, toyReply, actionImage, error, isLoadingResponse>>]_vars

(* C6: a command whose text is empty or whitespace issues no call and leaves *)
(* isLoadingResponse, toyReply, actionImage, error, lastSendAt unchanged.    *)
C6_BlankCommandIsNoOp ==
  [][Submits /\ trim(userCommand') = <<>> => UNCHANGED sendFrame]_vars

C6_Witness ==
  /\ submissions > 0
  /\ userCommand = <<" ">>
  /\ toyImagePart # 0
  /\ now - lastSendAt >= DEBOUNCE_MS

(* C7: a command submitted while toyImagePart is null issues no call and     *)
(* leaves isLoadingResponse, toyReply, actionImage, error, lastSendAt        *)
(* unchanged.                                                                *)
C7_NoImageIsNoOp ==
  [][Submits /\ toyImagePart = 0 => UNCHANGED sendFrame]_vars

(* C8: isLoadingDescription and isLoadingResponse are never both true. *)
C8_LoadingFlagsExclusive == ~(isLoadingDescription /\ isLoadingResponse)

(* C9: at most one description loop and at most one command loop is running. *)
C9_OneRequestPerSite ==
  /\ Cardinality({k \in Uploads : InLoop(descOps[k])}) <= 1
  /\ Cardinality({j \in Commands : InLoop(cmdOps[j])}) <= 1

(* C10: a loop that was sleeping between attempts when startOver ran issues  *)
(* no further remote call.                                                   *)
WakesAfterReset(op, op2) ==
  op.pc = "sleeping" /\ op.resetWhile = "sleeping" /\ op2.pc = "calling"

C10_ResetCancelsRetry ==
  [][~ \/ \E k \in Uploads : WakesAfterReset(descOps[k], descOps'[k])
       \/ \E j \in Commands : WakesAfterReset(cmdOps[j], cmdOps'[j])]_vars

(* C11: when the description fetch ends in failure (a Fatal error, or a      *)
(* Transient error on the last attempt), the image is cleared (toyImage and  *)
(* toyImagePart null) and an error notice is shown.                          *)
C11_DescriptionFailureClearsImage ==
  [][\A k \in Uploads :
       CallFails(descOps[k], descOps'[k]) /\ descOps'[k].pc = "done"
         => toyImage' = 0 /\ toyImagePart' = 0 /\ error' # ""]_vars

(* C12: right after startOver, toyImage, toyImagePart, toyModel,             *)
(* toyDescription, userCommand, toyReply, actionImage and error are empty,   *)
(* the held image object URL is revoked, and neither loading flag is still   *)
(* set for an operation of the session that was reset.                       *)
(* A Start Over step: the toy is dropped and no operation moves.             *)
ResetStep ==
  /\ toyImage # 0
  /\ toyImage' = 0
  /\ \A k \in Uploads : descOps'[k].pc = descOps[k].pc
  /\ \A j \in Commands : cmdOps'[j].pc = cmdOps[j].pc

C12_ResetClearsSession ==
  [][ResetStep =>
       /\ toyImagePart' = 0
       /\ toyModel' = NoFile
       /\ toyDescription' = ""
       /\ userCommand' = <<>>
       /\ toyReply' = <<>>
       /\ actionImage' = <<>>
       /\ error' = ""
       /\ toyImageObjectUrlRef' = 0
       /\ (toyImageObjectUrlRef # 0 => toyImageObjectUrlRef \in revokedUrls')
       /\ ~isLoadingDescription'
       /\ ~isLoadingResponse']_vars

(* C13: when a command ends in failure (a Fatal error, or a Transient error  *)
(* on the last attempt), isLoadingResponse is false, toyReply and            *)
(* actionImage are empty, the captured image and the description are         *)
(* unchanged, and an error notice is shown.                                  *)
C13_CommandFailureLeavesNoResult ==
  [][\A j \in Commands :
       CallFails(cmdOps[j], cmdOps'[j]) /\ cmdOps'[j].pc = "done"
         => /\ ~isLoadingResponse'
            /\ toyReply' = <<>>
            /\ actionImage' = <<>>
            /\ UNCHANGED <<toyImage, toyImagePart, toyDescription>>
            /\ error' # ""]_vars

(* The inline image payloads of a response, in part order. *)
Payloads(r) ==
  LET withData == SelectSeq(r.parts, LAMBDA part : part.data # "")
  IN [i \in DOMAIN withData |-> withData[i].data]

(* A command call resolves in this step: the loop is left without an error. *)
CommandSucceeds(op, op2) == op.pc = "calling" /\ op2.pc = "done" /\ op2.lastErr = NullErr

(* C14: a command response that carries both text and an inline image sets   *)
(* toyReply to the (trimmed) text and actionImage to the payload of the      *)
(* image, ends the loading phase and raises no error notice; a response that *)
(* carries neither sets neither and raises the ParseError notice.            *)
C14_ResponseStored ==
  [][\A j \in Commands :
       CommandSucceeds(cmdOps[j], cmdOps'[j]) =>
         LET r == cmdOps'[j].response IN
         /\ (trim(r.text) # <<>> /\ Payloads(r) # <<>>
               => /\ toyReply' = trim(r.text)
                  /\ actionImage' = DataUrl(Payloads(r)[1])
                  /\ ~isLoadingResponse'
                  /\ UNCHANGED <<error, errorTimers>>)
         /\ (trim(r.text) = <<>> /\ Payloads(r) = <<>>
               => /\ UNCHANGED <<toyReply, actionImage>>
                  /\ error' = MSG_PARSE)]_vars

C14_Witness ==
  \E j \in Commands :
    /\ cmdOps[j].pc = "done"
    /\ cmdOps[j].lastErr = NullErr
    /\ cmdOps[j].response = [text |-> <<" ", "H", "i", " ">>, parts |-> TwoImages]
    /\ toyReply = <<"H", "i">>
    /\ actionImage = DataUrl("imgB")
    /\ ~isLoadingResponse
    /\ error = ""

(* The remote call op awaits resolves in this step, leaving op2. *)
CallResolves(op, op2) == op.pc = "calling" /\ op2.pc # "calling" /\ op2.lastErr = NullErr

(* C15: a command response with no usable text and no image raises the       *)
(* "couldn't produce a reply ... try a simpler command" notice, never the    *)
(* generic failure notice or the daily-limit notice, and the request is not  *)
(* retried: the operation is over and no other call is issued.               *)
C15_ParseErrorIsDistinct ==
  [][\A j \in Commands :
       LET r == cmdOps'[j].response IN
       CallResolves(cmdOps[j], cmdOps'[j]) /\ trim(r.text) = <<>> /\ Payloads(r) = <<>>
         => /\ error' = MSG_PARSE
            /\ error' \notin {MSG_COMMAND_FAILED, MSG_DAILY_LIMIT, MSG_DESCRIBE_FAILED}
            /\ errorTimers' = Append(errorTimers, now + ERROR_CLEAR_MS)
            /\ cmdOps'[j].pc = "done"
            /\ \A i \in Commands \ {j} : cmdOps'[i] = cmdOps[i]
            /\ descOps' = descOps]_vars

C15_Witness ==
  \E j \in Commands :
    /\ cmdOps[j].pc = "done"
    /\ cmdOps[j].lastErr = NullErr
    /\ cmdOps[j].response = [text |-> <<" ">>, parts |-> <<>>]
    /\ error = MSG_PARSE
    /\ toyReply = <<>>
    /\ actionImage = <<>>

(* C16: each new error resets the dismissal timer: a timer callback clears a *)
(* displayed notice only when the 6 s of the latest error (the last timer    *)
(* armed) have passed; the timer of an earlier error never clears a later    *)
(* error early.                                                              *)
TimerClearsNotice == errorTimers # <<>> /\ errorTimers' = Tail(errorTimers) /\ error # ""

C16_TimerClearsOnlyItsOwnError ==
  [][TimerClearsNotice => now >= errorTimers[Len(errorTimers)]]_vars

(* A change event of the given file input is handled in this step. *)
FileChosen(input) == fileChanges' # fileChanges /\ lastFile'.input = input

ImagePrefix == <<"i", "m", "a", "g", "e", "/">>

(* C17: picking, in the image input, a file whose MIME type does not start   *)
(* with "image/" sets the error notice and changes nothing else: no remote   *)
(* call is made, the session is not reset, and toyImage, toyImagePart,       *)
(* toyDescription and the loading flags are unchanged.                       *)
C17_NonImageRejected ==
  [][FileChosen("image") /\ ~startsWith(lastFile'.file.type, ImagePrefix)
       => /\ error' = MSG_NOT_IMAGE
          /\ errorTimers' = Append(errorTimers, now + ERROR_CLEAR_MS)
          /\ UNCHANGED <<toyImage, toyImagePart, toyDescription, isLoadingDescription,
                         isLoadingResponse, toyModel, userCommand, toyReply, actionImage,
                         isListening, lastSendAt, abortControllerRef, toyImageObjectUrlRef,
                         recognitionRef, revokedUrls, descOps, cmdOps, recogs, submissions>>]_vars

C17_Witness ==
  /\ lastFile = Pick("image", TxtFile)
  /\ error = MSG_NOT_IMAGE
  /\ toyImage = 0
  /\ \A k \in Uploads : descOps[k].pc = "idle"

(* The file name carries the .glb extension, in any letter case. *)
HasGlbExtension(name) ==
  /\ Len(name) >= 4
  /\ toLowerCase(SubSeq(name, Len(name) - 3, Len(name))) = <<".", "g", "l", "b">>

restOfSession ==
  <<toyImage, toyImagePart, toyDescription, userCommand, toyReply, actionImage,
    isLoadingDescription, isLoadingResponse, isListening, lastSendAt, abortControllerRef,
    toyImageObjectUrlRef, recognitionRef, revokedUrls, descOps, cmdOps, recogs, submissions>>

(* C18: picking, in the model input, a file whose name does not end in .glb  *)
(* sets the error notice and leaves toyModel and the rest of the session     *)
(* unchanged; a file whose name ends in .glb becomes toyModel and nothing    *)
(* else changes.                                                             *)
C18_ModelExtensionChecked ==
  [][FileChosen("model") =>
       IF HasGlbExtension(lastFile'.file.name)
       THEN /\ toyModel' = lastFile'.file
            /\ UNCHANGED <<error, errorTimers>>
            /\ UNCHANGED restOfSession
       ELSE /\ error' = MSG_NOT_MODEL
            /\ errorTimers' = Append(errorTimers, now + ERROR_CLEAR_MS)
            /\ UNCHANGED toyModel
            /\ UNCHANGED restOfSession]_vars

(* A .glb file was accepted, and a later .txt file was rejected and left it. *)
C18_Witness ==
  /\ toyModel = GlbFile
  /\ lastFile = Pick("model", TxtFile)
  /\ error = MSG_NOT_MODEL

(* C19: when the description call succeeds with non-empty text T, the        *)
(* session is Ready: toyDescription is T verbatim, toyImage and toyImagePart *)
(* are set, isLoadingDescription is false and no error notice is raised.     *)
C19_DescriptionSuccessIsReady ==
  [][\A k \in Uploads :
       LET T == descOps'[k].response.text[1] IN
       CallResolves(descOps[k], descOps'[k]) /\ T # ""
         => /\ toyDescription' = T
            /\ toyImage # 0 /\ toyImage' # 0
            /\ toyImagePart # 0 /\ toyImagePart' # 0
            /\ ~isLoadingDescription'
            /\ UNCHANGED <<error, errorTimers>>]_vars

(* C20: each call site owns its own cancellation token, so a reset made      *)
(* while a description call or a command call is still awaited aborts that   *)
(* call, whatever the other call site has done in the meantime.              *)
C20_ResetAbortsEveryAwaitedCall ==
  [][ResetStep =>
       /\ \A k \in Uploads : descOps[k].pc = "calling" => descOps'[k].aborted
       /\ \A j \in Commands : cmdOps[j].pc = "calling" => cmdOps'[j].aborted]_vars

(* C21: after the n-th failed call of an operation (n = 1, 2) the loop       *)
(* sleeps RETRY_BASE_DELAY_MS * 2^n, that is 1600 ms before the second call  *)
(* and 3200 ms before the third, and the next call is not issued before the  *)
(* sleep is over; no sleep follows the failure of the last call.             *)
BackoffAsSpecified(op, op2) ==
  /\ CallFails(op, op2) /\ op2.pc = "sleeping"
       => /\ op.calls \in 1..SAFE_RETRY_COUNT
          /\ op2.wakeAt - now = (IF op.calls = 1 THEN 1600 ELSE 3200)
          /\ op2.wakeAt - now = RETRY_BASE_DELAY_MS * (2 ^ op.calls)
  /\ CallFails(op, op2) /\ op.calls = SAFE_RETRY_COUNT + 1 => op2.pc = "done"
  /\ op.pc = "sleeping" /\ op2.pc = "calling" => now >= op.wakeAt

C21_BackoffDelays ==
  [][/\ \A k \in Uploads : BackoffAsSpecified(descOps[k], descOps'[k])
     /\ \A j \in Commands : BackoffAsSpecified(cmdOps[j], cmdOps'[j])]_vars

(* An operation sleeps 3200 ms after its second failed call. *)
C21_Witness ==
  \E op \in DescOps \cup CmdOps :
    op.pc = "sleeping" /\ op.calls = 2 /\ op.wakeAt = now + 3200

(* C22: every time toyReply changes to a non-empty value, speakText cancels  *)
(* what the speech service holds before it enqueues the new utterance: after *)
(* the step the service holds exactly the utterance of the new reply, and at *)
(* no time more than one utterance.                                          *)
ReplyChanges == toyReply' # toyReply /\ toyReply' # <<>>

C22_SpeechNeverOverlaps ==
  [][/\ Len(speechQueue') <= 1
     /\ ReplyChanges /\ platform.speech
          => Len(speechQueue') = 1 /\ speechQueue'[1].text = toyReply']_vars

(* A second reply was spoken while the utterance of the first was held. *)
C22_Witness ==
  /\ \A j \in Commands :
       cmdOps[j].pc = "done" /\ cmdOps[j].lastErr = NullErr /\ trim(cmdOps[j].response.text) # <<>>
  /\ toyReply = <<"H", "i">>
  /\ Len(speechQueue) = 1
  /\ speechQueue[1].text = toyReply

(* C23: for every list of available voices, the utterance gets the voice     *)
(* named as preferred if the list has one; otherwise an English voice        *)
(* flagged female; otherwise any English voice; otherwise no voice (the      *)
(* service's default).  A voice of a lower priority is never chosen when one *)
(* of a higher priority is in the list.                                      *)
Available(Test(_)) == \E i \in DOMAIN voices : Test(voices[i])

C23_VoicePriority ==
  speechQueue # <<>> =>
    LET v == speechQueue[1].voice IN
    /\ v = NoVoice \/ \E i \in DOMAIN voices : v = voices[i]
    /\ IF Available(IsPreferredVoice) THEN IsPreferredVoice(v)
       ELSE IF Available(IsEnglishFemaleVoice) THEN IsEnglishFemaleVoice(v)
       ELSE IF Available(IsEnglishVoice) THEN IsEnglishVoice(v)
       ELSE v = NoVoice

(* The preferred voice is chosen though English voices precede it. *)
C23_Witness ==
  /\ voices = <<EnglishVoice, FemaleVoice, GoogleVoice>>
  /\ speechQueue # <<>>
  /\ speechQueue[1].voice = GoogleVoice

(* C24: on a runtime where the audio cue or the speech cannot be produced    *)
(* (no audio context, no speech service), the operation that triggered it    *)
(* still completes its state updates: a failed description or command sets   *)
(* its error notice through handleError and clears its loading flag, and a   *)
(* command that succeeds stores its reply and clears its loading flag.       *)
NotificationsFail == ~platform.audio \/ ~platform.speech

MicClicked == micClicks' # micClicks

(* C25: on a runtime without speech recognition a microphone click sets an   *)
(* error notice and changes nothing else: isListening, the command text, the *)
(* reply and the rest of the session are unchanged, no recognition instance  *)
(* is created and no command is sent.                                        *)
C25_UnsupportedMicHandledLocally ==
  [][MicClicked /\ ~platform.recognition
       => /\ error' = MSG_VOICE_UNSUPPORTED
          /\ errorTimers' = Append(errorTimers, now + ERROR_CLEAR_MS)
          /\ UNCHANGED <<isListening, userCommand, toyReply, actionImage, toyImage,
                         toyImagePart, toyDescription, isLoadingDescription,
                         isLoadingResponse, lastSendAt, abortControllerRef,
                         toyImageObjectUrlRef, recognitionRef, recogs, descOps, cmdOps,
                         submissions, toyModel, speechQueue>>]_vars

C25_Witness ==
  /\ ~platform.recognition
  /\ micClicks > 0
  /\ error = MSG_VOICE_UNSUPPORTED
  /\ ~isListening
  /\ recognitionRef = 0
  /\ \A m \in Mics : recogs[m].status = "unused"

(* C26: when a command response has several parts with inline image data,   *)
(* actionImage is set from the first of them in part order and the later     *)
(* ones are ignored, whatever text parts come before or between them and     *)
(* whatever the aggregated text is.                                          *)
C26_FirstImageOnly ==
  [][\A j \in Commands :
       LET r == cmdOps'[j].response IN
       CallResolves(cmdOps[j], cmdOps'[j]) /\ Len(Payloads(r)) >= 2
         => /\ actionImage' = DataUrl(Payloads(r)[1])
            /\ \A i \in 2..Len(Payloads(r)) : actionImage' # DataUrl(Payloads(r)[i])]_vars

(* A response with no usable text whose first part is text and which holds   *)
(* two images: the first image is shown.                                     *)
C26_Witness ==
  \E j \in Commands :
    /\ cmdOps[j].pc = "done"
    /\ cmdOps[j].response = [text |-> <<>>, parts |-> TwoImages]
    /\ actionImage = DataUrl("imgB")
    /\ toyReply = <<>>

(* C27: the reply text is the aggregated text trimmed, and an empty result   *)
(* counts as absent: a response whose text is empty or only whitespace       *)
(* leaves toyReply as it was, and raises the ParseError notice if it has no  *)
(* image part either; any other text is stored without its surrounding       *)
(* whitespace.                                                               *)
Blank(text) == \A i \in DOMAIN text : text[i] = " "

C27_ReplyTextTrimmed ==
  [][\A j \in Commands :
       LET r == cmdOps'[j].response IN
       CallResolves(cmdOps[j], cmdOps'[j]) =>
         IF Blank(r.text)
         THEN /\ toyReply' = toyReply
              /\ Payloads(r) = <<>> => error' = MSG_PARSE
         ELSE /\ toyReply' # <<>>
              /\ toyReply'[1] # " " /\ toyReply'[Len(toyReply')] # " "
              /\ \E a, b \in 0..Len(r.text) :
                   /\ a + Len(toyReply') + b = Len(r.text)
                   /\ toyReply' = SubSeq(r.text, a + 1, a + Len(toyReply'))]_vars

(* A whitespace-only text with an image: the image is shown, no reply is     *)
(* set and no notice is raised.                                              *)
C27_Witness ==
  \E j \in Commands :
    /\ cmdOps[j].pc = "done"
    /\ cmdOps[j].lastErr = NullErr
    /\ cmdOps[j].response = [text |-> <<" ">>, parts |-> TwoImages]
    /\ toyReply = <<>>
    /\ actionImage # <<>>
    /\ error = ""

(* C28: a Transient failure of the first or the second call of an operation  *)
(* raises no error notice and is retried; when a call then succeeds (after   *)
(* 0, 1 or 2 such failures) the operation is over at once: no further call   *)
(* is made, the result of that call is stored, and no notice is raised for   *)
(* the earlier failures.                                                     *)
SilentRetry(op, op2) ==
  CallFails(op, op2) /\ op2.lastErr \in {NetErr, AbortErr} /\ op.calls <= SAFE_RETRY_COUNT
    => op2.pc = "sleeping" /\ op2.calls = op.calls /\ UNCHANGED <<error, errorTimers>>

C28_SuccessEndsLoop ==
  [][/\ \A k \in Uploads :
          /\ SilentRetry(descOps[k], descOps'[k])
          /\ CallResolves(descOps[k], descOps'[k])
               => /\ descOps[k].calls \in 1..(SAFE_RETRY_COUNT + 1)
                  /\ descOps'[k].pc = "done"
                  /\ toyDescription' \in {descOps'[k].response.text[1], PLACEHOLDER_DESCRIPTION}
                  /\ UNCHANGED <<error, errorTimers>>
     /\ \A j \in Commands :
          /\ SilentRetry(cmdOps[j], cmdOps'[j])
          /\ CallResolves(cmdOps[j], cmdOps'[j])
               => LET r == cmdOps'[j].response IN
                  /\ cmdOps[j].calls \in 1..(SAFE_RETRY_COUNT + 1)
                  /\ cmdOps'[j].pc = "done"
                  /\ ~Blank(r.text) => toyReply' = trim(r.text)
                  /\ Payloads(r) # <<>> => actionImage' = DataUrl(Payloads(r)[1])
                  /\ ~Blank(r.text) \/ Payloads(r) # <<>> => UNCHANGED <<error, errorTimers>>]_vars

(* The third call of a description fetch has succeeded: nothing else was     *)
(* done, the clock stands at the end of the two backoff sleeps and no notice *)
(* was raised.                                                               *)
C28_Witness ==
  /\ \E k \in Uploads :
       descOps[k].pc = "done" /\ descOps[k].response = DescResponse("A fluffy bear")
  /\ toyDescription = "A fluffy bear"
  /\ now = StartTime + 1600 + 3200
  /\ \A j \in Commands : cmdOps[j].pc = "idle"
  /\ fileChanges = 1 /\ submissions = 0 /\ micClicks = 0
  /\ error = ""
  /\ errorTimers = <<>>
  /\ ~isLoadingDescription

(* C29: the debounce window is measured from the last accepted submission    *)
(* only: a rejected submission leaves lastSendAt alone, and a submission of  *)
(* a non-blank command, made with an image captured and 600 ms or more after *)
(* the last accepted one, is accepted.                                       *)
Accepted == \E j \in Commands : cmdOps[j].pc = "idle" /\ cmdOps'[j].pc = "calling"

C29_WindowFromLastAccepted ==
  [][Submits =>
       /\ ~Accepted => UNCHANGED lastSendAt
       /\ ~Blank(userCommand') /\ toyImagePart # 0 /\ now - lastSendAt >= DEBOUNCE_MS
            => Accepted /\ lastSendAt' = now]_vars

(* C30: microphone capture never dangles: a mic click while listening stops  *)
(* the capture and sets isListening to false, at most one recognition        *)
(* instance captures at a time, and the end event of one instance never      *)
(* marks another, still capturing instance as not listening.                 *)
Capturing(rs, m) == rs[m].status = "listening"

StopsCapture == MicClicked /\ isListening => ~isListening' /\ \A m \in Mics : ~Capturing(recogs', m)

OneCapture == \A m, n \in Mics : Capturing(recogs', m) /\ Capturing(recogs', n) => m = n

Ends(m) == recogs[m].status # "ended" /\ recogs'[m].status = "ended"

LateEndIsHarmless ==
  \A m, n \in Mics : Ends(m) /\ n # m /\ Capturing(recogs', n) => isListening'

C30_CaptureNeverDangles == [][StopsCapture /\ OneCapture /\ LateEndIsHarmless]_vars

(* C31: isLoadingResponse is true in every state in which the retry loop of  *)
(* some command has not finished: a remote call is awaited or a backoff      *)
(* sleep is pending.                                                         *)
C31_LoadingWhileCommandRuns ==
  (\E j \in Commands : InLoop(cmdOps[j])) => isLoadingResponse

(* C32: the continuation of a superseded upload never touches the current    *)
(* session's image: when the encoding of upload k ends while the image of    *)
(* another upload is shown, the step changes none of toyImagePart, toyImage, *)
(* the object URL held for the shown image, and the set of revoked URLs.     *)
Superseded(k) == descOps[k].pc = "encoding" /\ toyImage # 0 /\ toyImage # k

EncodingEnds(k) == descOps[k].pc = "encoding" /\ descOps'[k].pc # "encoding"

C32_SupersededUploadIsInert ==
  [][\A k \in Uploads : Superseded(k) /\ EncodingEnds(k)
       => UNCHANGED <<toyImagePart, toyImage, toyImageObjectUrlRef, revokedUrls>>]_vars

(* C33: a transcript delivered by recognition is checked against the session *)
(* state current when it arrives: it is rejected if a submission was         *)
(* accepted less than 600 ms earlier or if no image is captured, and an      *)
(* accepted transcript's call carries the currently captured image.          *)
TranscriptArrives == \E m \in Mics : recogs[m].status # "resulted" /\ recogs'[m].status = "resulted"

C33_TranscriptCheckedAgainstCurrentState ==
  [][TranscriptArrives =>
       /\ now - lastSendAt < DEBOUNCE_MS \/ toyImagePart = 0 => UNCHANGED sendFrame
       /\ \A j \in Commands : cmdOps[j].pc = "idle" /\ cmdOps'[j].pc = "calling"
            => cmdOps'[j].part = toyImagePart]_vars

(* C34: every accepted command eventually finishes: its retry loop issues at *)
(* most 3 calls and ends, and isLoadingResponse eventually becomes false;    *)
(* every started upload ends and isLoadingDescription eventually becomes     *)
(* false.                                                                    *)
Started(op) == op.pc \in {"encoding", "calling", "sleeping"}

C34_EveryOperationFinishes ==
  /\ [](\A j \in Commands : cmdOps[j].calls <= SAFE_RETRY_COUNT + 1)
  /\ \A j \in Commands : Started(cmdOps[j]) ~> cmdOps[j].pc = "done"
  /\ isLoadingResponse ~> ~isLoadingResponse
  /\ \A k \in Uploads : Started(descOps[k]) ~> descOps[k].pc = "done"
  /\ isLoadingDescription ~> ~isLoadingDescription

(* A command whose three calls all failed: its loop has ended after both     *)
(* backoff sleeps and the loading flag is false again.                       *)
C34_Witness ==
  /\ cmdOps[1].pc = "done" /\ cmdOps[1].lastErr = NetErr /\ cmdOps[2].pc = "idle"
  /\ error = MSG_COMMAND_FAILED
  /\ ~isLoadingResponse
  /\ inputs = MaxInputs
  /\ now = StartTime + Backoff(1) + Backoff(2)

(* C35: accepting a command clears the previous result: the accepting step   *)
(* leaves toyReply, actionImage and error empty, and toyReply and            *)
(* actionImage stay empty for as long as an accepted command has not had its *)
(* response stored.                                                          *)
C35_AcceptedCommandClearsResult ==
  [][/\ Accepted => toyReply' = <<>> /\ actionImage' = <<>> /\ error' = ""
     /\ (\E j \in Commands : InLoop(cmdOps'[j])) => toyReply' = <<>> /\ actionImage' = <<>>]_vars

(* C36: a description call that succeeds with empty text is a success: the   *)
(* loop ends without a retry, toyDescription is the fixed placeholder, no    *)
(* error notice is set, and the session is Ready (toyImage and toyImagePart  *)
(* are set, isLoadingDescription is false).                                  *)
ResolvesEmpty(op, op2) == CallResolves(op, op2) /\ op2.response.text[1] = ""

C36_EmptyDescriptionIsSuccess ==
  [][\A k \in Uploads :
       ResolvesEmpty(descOps[k], descOps'[k])
         => /\ descOps'[k].pc = "done"
            /\ toyDescription' = PLACEHOLDER_DESCRIPTION
            /\ UNCHANGED <<error, errorTimers>>
            /\ toyImage' # 0 /\ toyImagePart' # 0
            /\ ~isLoadingDescription']_vars

====
